---- MODULE Spec2Model ----
(***************************************************************************)
(* Model of the Game2048 class of src/script.js: the 4x4 grid, the score,  *)
(* the one-slot undo snapshot, the sticky win flag, the best score and the *)
(* auto-saved game record, with one action per public operation            *)
(* (move, undo, newGame, toggleAutoSave) and the constructor as Init.      *)
(*                                                                         *)
(* A grid is a sequence of 4 rows, each a sequence of 4 numbers.  The      *)
(* source indexes from 0, sequences from 1: Cell(g, i, j) is grid[i][j].   *)
(* A value that is null in the source (previousState, the stored game) is  *)
(* the empty sequence here, and <<v>> when it holds v.  A stored game is   *)
(* the record its JSON text parses to, or [text |-> t] for a text t that   *)
(* is not JSON.                                                            *)
(***************************************************************************)
EXTENDS Integers, Sequences, FiniteSets, TLC

VARIABLES
    grid,           \* this.grid
    score,          \* this.score
    bestScore,      \* this.bestScore
    previousState,  \* this.previousState: <<>> or <<[grid, score]>>
    autoSave,       \* this.autoSave
    hasWon,         \* this.hasWon
    savedGame,      \* localStorage['2048-game-state']: <<>> or <<[grid, score, hasWon]>>
    winEvents,      \* times the win overlay was scheduled since the game started
    constructed,    \* new Game2048() returned: window.game exists, handlers are bound
    last,           \* what the last operation did (observation only)
    steps           \* operations performed so far (bounds the exploration)

vars == <<grid, score, bestScore, previousState, autoSave, hasWon, savedGame,
          winEvents, constructed, last, steps>>

----------------------------------------------------------------------------
\* Bounds of the exploration.

\* Operations (move, undo, newGame, toggleAutoSave) explored after construction.
MaxSteps == 3

----------------------------------------------------------------------------
\* Program constants.

\* The grid is 4 x 4.
N == 4

\* The tile value that wins the game.
WinValue == 2048

Idx == 0 .. (N - 1)

Directions == {"left", "right", "up", "down"}

\* A direction string that is none of the four (move is a public method).
OtherDirection == "none"

Cell(g, i, j) == g[i + 1][j + 1]

Reverse(s) == [k \in 1 .. Len(s) |-> s[Len(s) + 1 - k]]

\* initGrid: Array(4).fill().map(() => Array(4).fill(0))
initGrid == [i \in 1 .. N |-> [j \in 1 .. N |-> 0]]

----------------------------------------------------------------------------
\* slideAndMergeRow

\* A filter that returns the kept values in the opposite order.
FilterZerosReversed(row) == Reverse(SelectSeq(row, LAMBDA v : v # 0))

\* row.filter(val => val !== 0)
FilterZeros(row) == SelectSeq(row, LAMBDA v : v # 0)

\* A merge that removes one tile of the pair and does not double the other.
MergeAtKeep(newRow, i) ==
    [k \in 1 .. (Len(newRow) - 1) |-> IF k < i + 2 THEN newRow[k] ELSE newRow[k + 1]]

\* newRow.splice(i + 1, 1) after newRow[i] *= 2 (i counted from 0)
MergeAt(newRow, i) ==
    [k \in 1 .. (Len(newRow) - 1) |->
        IF k < i + 1 THEN newRow[k]
        ELSE IF k = i + 1 THEN 2 * newRow[i + 1]
        ELSE newRow[k + 1]]

\* A merge that leaves i on the merged tile, so that it may merge again.
MergeNextIndexCascade(i) == i

\* The loop's i++ after an iteration that merged at i.
MergeNextIndex(i) == i + 1

\* A merge that assigns the doubled value to the score.
MergeScoreAssign(sc, newRow, i) == 2 * newRow[i + 1]

\* A merge that adds the value of one tile, not the doubled value.
MergeScoreSingle(sc, newRow, i) == sc + newRow[i + 1]

\* this.score += newRow[i], after newRow[i] *= 2
MergeScore(sc, newRow, i) == sc + 2 * newRow[i + 1]

\* for (let i = 0; i < newRow.length - 1; i++) { ... }
RECURSIVE MergeLoop(_, _, _, _)
MergeLoop(newRow, i, sc, merged) ==
    IF i < Len(newRow) - 1
    THEN IF newRow[i + 1] = newRow[i + 2]
         THEN MergeLoop(MergeAt(newRow, i), MergeNextIndex(i),
                        MergeScore(sc, newRow, i), Append(merged, i))
         ELSE MergeLoop(newRow, i + 1, sc, merged)
    ELSE [row |-> newRow, score |-> sc, merged |-> merged]

\* while (newRow.length < 4) newRow.push(0)
PadZeros(newRow) == newRow \o [k \in 1 .. (N - Len(newRow)) |-> 0]

\* slideAndMergeRow(row) with this.score = sc on entry; score is this.score on return.
slideAndMergeRow(row, sc) ==
    LET r == MergeLoop(FilterZeros(row), 0, sc, <<>>)
    IN  [row |-> PadZeros(r.row), score |-> r.score, merged |-> r.merged]

----------------------------------------------------------------------------
\* move: the four per-direction loops.  A loop state is
\* [g: newGrid, sc: this.score, moved, merged: mergedCells, calls], where calls
\* lists each slideAndMergeRow call as [in, out, merged, gained].

CallRecord(line, r, sc) ==
    [in |-> line, out |-> r.row, merged |-> r.merged, gained |-> r.score - sc]

\* mergedCells.push(...row.merged.map(col => ({row: i, col})))
LeftCells(merged, i) ==
    [k \in 1 .. Len(merged) |-> [row |-> i, col |-> merged[k]]]

\* mergedCells.push(...row.merged.map(col => ({row: i, col: 3 - col})))
RightCells(merged, i) ==
    [k \in 1 .. Len(merged) |-> [row |-> i, col |-> 3 - merged[k]]]

\* mergedCells.push(...row.merged.map(rowIdx => ({row: rowIdx, col: j})))
UpCells(merged, j) ==
    [k \in 1 .. Len(merged) |-> [row |-> merged[k], col |-> j]]

\* mergedCells.push(...row.merged.map(rowIdx => ({row: 3 - rowIdx, col: j})))
DownCells(merged, j) ==
    [k \in 1 .. Len(merged) |-> [row |-> 3 - merged[k], col |-> j]]

\* One iteration of the 'left' loop, for row i.
LeftStep(st, i) ==
    LET line == st.g[i + 1]
        r    == slideAndMergeRow(line, st.sc)
    IN  [g      |-> [st.g EXCEPT ![i + 1] = r.row],
         sc     |-> r.score,
         moved  |-> st.moved \/ (r.row # line),
         merged |-> st.merged \o LeftCells(r.merged, i),
         calls  |-> Append(st.calls, CallRecord(line, r, st.sc))]

\* What the 'right' branch stores in newGrid[i]: row.row.reverse() a second
\* time.  Array.prototype.reverse reverses in place and returns the array, so
\* `compared`, the array after the reversal inside the if, is reversed again.
RightWritten(compared) == Reverse(compared)

\* One iteration of the 'right' loop, for row i.
RightStep(st, i) ==
    LET line     == st.g[i + 1]
        reversed == Reverse(line)
        r        == slideAndMergeRow(reversed, st.sc)
        compared == Reverse(r.row)
    IN  [g      |-> [st.g EXCEPT ![i + 1] = RightWritten(compared)],
         sc     |-> r.score,
         moved  |-> st.moved \/ (compared # line),
         merged |-> st.merged \o RightCells(r.merged, i),
         calls  |-> Append(st.calls, CallRecord(reversed, r, st.sc))]

\* One iteration of the 'up' loop, for column j.
UpStep(st, j) ==
    LET column == <<Cell(st.g, 0, j), Cell(st.g, 1, j), Cell(st.g, 2, j), Cell(st.g, 3, j)>>
        r      == slideAndMergeRow(column, st.sc)
    IN  [g      |-> [a \in 1 .. N |-> [st.g[a] EXCEPT ![j + 1] = r.row[a]]],
         sc     |-> r.score,
         moved  |-> st.moved \/ (<<r.row[1], r.row[2], r.row[3], r.row[4]>> # column),
         merged |-> st.merged \o UpCells(r.merged, j),
         calls  |-> Append(st.calls, CallRecord(column, r, st.sc))]

\* One iteration of the 'down' loop, for column j: newGrid[3-i][j] = row.row[i].
DownStep(st, j) ==
    LET column == <<Cell(st.g, 3, j), Cell(st.g, 2, j), Cell(st.g, 1, j), Cell(st.g, 0, j)>>
        r      == slideAndMergeRow(column, st.sc)
    IN  [g      |-> [a \in 1 .. N |-> [st.g[a] EXCEPT ![j + 1] = r.row[(N + 1) - a]]],
         sc     |-> r.score,
         moved  |-> st.moved \/
                    (<<r.row[4], r.row[3], r.row[2], r.row[1]>> #
                     <<Cell(st.g, 0, j), Cell(st.g, 1, j), Cell(st.g, 2, j), Cell(st.g, 3, j)>>),
         merged |-> st.merged \o DownCells(r.merged, j),
         calls  |-> Append(st.calls, CallRecord(column, r, st.sc))]

\* The if / else if chain on direction: no branch for any other string.
LineStep(st, direction, k) ==
    IF direction = "left" THEN LeftStep(st, k)
    ELSE IF direction = "right" THEN RightStep(st, k)
    ELSE IF direction = "up" THEN UpStep(st, k)
    ELSE IF direction = "down" THEN DownStep(st, k)
    ELSE st

\* for (let k = 0; k < 4; k++)
RECURSIVE MoveLoop(_, _, _)
MoveLoop(st, direction, k) ==
    IF k < N THEN MoveLoop(LineStep(st, direction, k), direction, k + 1) ELSE st

\* Lines 99-147 of move: newGrid, this.score, moved and mergedCells after the loops.
MoveLines(g, sc, direction) ==
    MoveLoop([g |-> g, sc |-> sc, moved |-> FALSE, merged |-> <<>>, calls |-> <<>>],
             direction, 0)

----------------------------------------------------------------------------
\* addRandomTile, checkWin, isGameOver, saveState, updateDisplay, saveGame

\* emptyCells, in the order of the two nested loops (row-major).
RECURSIVE EmptyCellsFrom(_, _)
EmptyCellsFrom(g, p) ==
    IF p >= N * N THEN <<>>
    ELSE LET i == p \div N
             j == p % N
         IN  IF Cell(g, i, j) = 0
             THEN <<[row |-> i, col |-> j]>> \o EmptyCellsFrom(g, p + 1)
             ELSE EmptyCellsFrom(g, p + 1)

EmptyCells(g) == EmptyCellsFrom(g, 0)

SetCell(g, i, j, v) == [g EXCEPT ![i + 1][j + 1] = v]

\* A spawn that draws among all 16 cells, not among the empty ones.
AllCells(g) == [p \in 1 .. (N * N) |-> [row |-> (p - 1) \div N, col |-> (p - 1) % N]]

\* The cells addRandomTile draws from.
SpawnCandidates(g) == EmptyCells(g)

\* Math.floor(r * length) for a fraction r = <<numerator, denominator>> of [0, 1).
FloorOfProduct(r, length) == (r[1] * length) \div r[2]

\* addRandomTile with Math.random() returning the fraction r for the cell and a
\* value < 0.9 (two = TRUE) or >= 0.9 (two = FALSE) for the tile.
addRandomTile(g, r, two) ==
    LET cells == SpawnCandidates(g)
    IN  IF Len(cells) > 0
        THEN LET randomCell == cells[FloorOfProduct(r, Len(cells)) + 1]
             IN  SetCell(g, randomCell.row, randomCell.col, IF two THEN 2 ELSE 4)
        ELSE g

\* The values Math.random() takes for the choice of the cell: 0 and 1/2.
RandomDraws == {<<0, 2>>, <<1, 2>>}

checkWin(g) == \E i \in Idx, j \in Idx : Cell(g, i, j) = WinValue

\* A game-over test that compares each cell with its right neighbour only.
isGameOverRowsOnly(g) ==
    /\ \A i \in Idx, j \in Idx : Cell(g, i, j) # 0
    /\ \A i \in Idx, j \in Idx : ~(j < 3 /\ Cell(g, i, j + 1) = Cell(g, i, j))

\* A game-over test that stops after the search for an empty cell.
isGameOverFullOnly(g) == \A i \in Idx, j \in Idx : Cell(g, i, j) # 0

\* isGameOver: no early return from either pair of loops.
isGameOver(g) ==
    /\ \A i \in Idx, j \in Idx : Cell(g, i, j) # 0
    /\ \A i \in Idx, j \in Idx :
          ~(\/ (i < 3 /\ Cell(g, i + 1, j) = Cell(g, i, j))
            \/ (j < 3 /\ Cell(g, i, j + 1) = Cell(g, i, j)))

\* A snapshot that keeps the grid and forgets the score.
saveStateGridOnly(g, sc) == <<[grid |-> g, score |-> 0]>>

\* saveState: this.previousState = {grid: copy of the grid, score}
saveState(g, sc) == <<[grid |-> g, score |-> sc]>>

\* A best score that is set to the score, whichever is larger.
updateBestFollows(sc, best) == sc

\* updateDisplay, lines 338-342: the best score follows the score upward.
updateBest(sc, best) == IF sc > best THEN sc ELSE best

\* saveGame: the stored record after saveGame() ran.
saveGame(as, stored, g, sc, won) ==
    IF as THEN <<[grid |-> g, score |-> sc, hasWon |-> won]>> ELSE stored

\* A win test that ignores the sticky flag.
WinFiresEveryTime(g, won) == checkWin(g)

\* The condition of line 167.
WinFires(g, won) == checkWin(g) /\ ~won

----------------------------------------------------------------------------
\* What the browser's storage holds when the page is opened: the best score,
\* the auto-save preference and the game record a previous session saved.

Row(a, b, c, d) == <<a, b, c, d>>

\* A game with lines that merge twice, merge next to a third tile, and slide.
SavedMerges ==
    [grid  |-> <<Row(2, 2, 2, 2), Row(2, 2, 4, 0), Row(2, 2, 4, 4), Row(0, 0, 0, 2)>>,
     score |-> 16, hasWon |-> FALSE]

\* A game one merge away from the 2048 tile.
SavedNearWin ==
    [grid  |-> <<Row(1024, 1024, 4, 2), Row(8, 2, 0, 0), Row(0, 0, 0, 0), Row(0, 0, 0, 0)>>,
     score |-> 18456, hasWon |-> FALSE]

\* A game with one empty cell and no equal neighbours.
SavedNearOver ==
    [grid  |-> <<Row(2, 4, 8, 16), Row(4, 8, 16, 32), Row(8, 16, 32, 64), Row(16, 32, 64, 0)>>,
     score |-> 1272, hasWon |-> FALSE]

\* A full grid whose only equal neighbours are the two 1024 tiles.
SavedWinOver ==
    [grid  |-> <<Row(1024, 1024, 16, 8), Row(4, 8, 16, 32), Row(8, 16, 32, 64),
                 Row(16, 32, 64, 128)>>,
     score |-> 20468, hasWon |-> FALSE]

\* A stored text that is not JSON, such as a record cut short.
NotJSON == [text |-> "{grid:[[2,4"]

\* JSON.parse(savedGame) throws a SyntaxError; loadGame has no try/catch.
ParseThrows(item) == "text" \in DOMAIN item

StoredConfigs ==
    {[best |-> 16,    autoSave |-> TRUE,  game |-> <<SavedMerges>>],
     [best |-> 18456, autoSave |-> TRUE,  game |-> <<SavedNearWin>>],
     [best |-> 1500,  autoSave |-> TRUE,  game |-> <<SavedNearOver>>],
     [best |-> 20468, autoSave |-> TRUE,  game |-> <<SavedWinOver>>],
     [best |-> 0,     autoSave |-> TRUE,  game |-> <<>>],
     [best |-> 16,    autoSave |-> TRUE,  game |-> <<NotJSON>>]}

----------------------------------------------------------------------------
\* The observation record of an operation:
\*   op, dir    the operation and, for a move, its direction argument
\*   pre        <<[grid, score, hasWon]>> on entry (move, undo, toggleAutoSave)
\*   moved, newGrid, merged, calls
\*              move: the flag, newGrid and mergedCells after the loops, and the
\*              slideAndMergeRow calls in order
\*   tiles      each addRandomTile call as [before, after]
\*   win, over  move: the win overlay / the game-over overlay was scheduled
\*   restored   undo: there was a snapshot and it was restored
\*   prev       undo: <<[op, moved, restored, pre, prev]>> of the operation before it

Idle(op) ==
    [op |-> op, dir |-> "", moved |-> FALSE, restored |-> FALSE, pre |-> <<>>,
     prev |-> <<>>, newGrid |-> <<>>, merged |-> <<>>, calls |-> <<>>, tiles |-> <<>>,
     win |-> FALSE, over |-> FALSE]

Entry == <<[grid |-> grid, score |-> score, hasWon |-> hasWon]>>

\* A new game that places one tile.
newGameOneTile(k1, two1, k2, two2) ==
    LET first == addRandomTile(initGrid, k1, two1)
    IN  <<[before |-> initGrid, after |-> first]>>

\* newGame, lines 64 and 68-69: the two addRandomTile calls on the cleared grid.
newGameTiles(k1, two1, k2, two2) ==
    LET first  == addRandomTile(initGrid, k1, two1)
        second == addRandomTile(first, k2, two2)
    IN  <<[before |-> initGrid, after |-> first], [before |-> first, after |-> second]>>

----------------------------------------------------------------------------
\* constructor: lines 7-16, over each storage content.

Init ==
    \E cfg \in StoredConfigs, k1 \in RandomDraws, k2 \in RandomDraws,
       two1 \in BOOLEAN, two2 \in BOOLEAN :
        \E tiles \in {newGameTiles(k1, two1, k2, two2)} :
            /\ autoSave = cfg.autoSave
            /\ previousState = <<>>
            /\ winEvents = 0
            /\ steps = 0
            /\ IF cfg.autoSave /\ cfg.game # <<>>
               THEN IF ParseThrows(cfg.game[1])
                    THEN \* the SyntaxError leaves loadGame and the constructor:
                         \* lines 16-20 and window.game = ... do not run
                         /\ grid = initGrid
                         /\ score = 0
                         /\ hasWon = FALSE
                         /\ savedGame = cfg.game
                         /\ bestScore = cfg.best
                         /\ constructed = FALSE
                         /\ last = Idle("throw")
                    ELSE \* loadGame restores the stored record
                         /\ grid = cfg.game[1].grid
                         /\ score = cfg.game[1].score
                         /\ hasWon = cfg.game[1].hasWon
                         /\ savedGame = cfg.game
                         /\ bestScore = updateBest(cfg.game[1].score, cfg.best)
                         /\ constructed = TRUE
                         /\ last = Idle("load")
               ELSE \* loadGame falls through to newGame
                    /\ grid = tiles[Len(tiles)].after
                    /\ score = 0
                    /\ hasWon = FALSE
                    /\ savedGame = saveGame(cfg.autoSave, cfg.game, tiles[Len(tiles)].after,
                                            0, FALSE)
                    /\ bestScore = updateBest(0, cfg.best)
                    /\ constructed = TRUE
                    /\ last = [Idle("newGame") EXCEPT !.tiles = tiles]

----------------------------------------------------------------------------
\* The operations.

\* newGame()
NewGame(k1, two1, k2, two2) ==
    /\ steps < MaxSteps
    /\ constructed
    /\ \E tiles \in {newGameTiles(k1, two1, k2, two2)} :
        /\ grid' = tiles[Len(tiles)].after
        /\ score' = 0
        /\ hasWon' = FALSE
        /\ previousState' = <<>>
        /\ bestScore' = updateBest(0, bestScore)
        /\ savedGame' = saveGame(autoSave, savedGame, tiles[Len(tiles)].after, 0, FALSE)
        /\ winEvents' = 0
        /\ last' = [Idle("newGame") EXCEPT !.tiles = tiles]
        /\ steps' = steps + 1
        /\ UNCHANGED <<autoSave, constructed>>

\* move(direction), with Math.random() returning k and then a value below 0.9
\* (two) or not.  m is the outcome of the loops of lines 99-147 and
\* spawned the grid after addRandomTile.
Move(direction) ==
    /\ steps < MaxSteps
    /\ constructed
    /\ \E m \in {MoveLines(grid, score, direction)} :
       \E k \in RandomDraws, two \in BOOLEAN :
       \E spawned \in {addRandomTile(m.g, k, two)} :
       \E fires \in {WinFires(spawned, hasWon)} :
           LET seen == [Idle("move") EXCEPT !.dir = direction, !.moved = m.moved,
                           !.pre = Entry,
                           !.newGrid = m.g, !.merged = m.merged, !.calls = m.calls]
           IN  /\ previousState' = saveState(grid, score)
               /\ score' = m.sc
               /\ IF m.moved
                  THEN /\ grid' = spawned
                       /\ bestScore' = updateBest(m.sc, bestScore)
                       /\ savedGame' = saveGame(autoSave, savedGame, spawned, m.sc, hasWon)
                       /\ hasWon' = IF fires THEN TRUE ELSE hasWon
                       /\ winEvents' = IF fires THEN winEvents + 1 ELSE winEvents
                       /\ last' = [seen EXCEPT
                                      !.tiles = <<[before |-> m.g, after |-> spawned]>>,
                                      !.win = fires,
                                      !.over = ~fires /\ isGameOver(spawned)]
                  ELSE /\ last' = seen
                       /\ UNCHANGED <<grid, bestScore, savedGame, hasWon, winEvents>>
               /\ steps' = steps + 1
               /\ UNCHANGED <<autoSave, constructed>>

\* undo()
Undo ==
    /\ steps < MaxSteps
    /\ constructed
    /\ IF previousState # <<>>
       THEN /\ grid' = previousState[1].grid
            /\ score' = previousState[1].score
            /\ previousState' = <<>>
            /\ bestScore' = updateBest(previousState[1].score, bestScore)
            /\ savedGame' = saveGame(autoSave, savedGame, previousState[1].grid,
                                     previousState[1].score, hasWon)
       ELSE UNCHANGED <<grid, score, previousState, bestScore, savedGame>>
    /\ last' = [Idle("undo") EXCEPT
                   !.pre = Entry,
                   !.restored = (previousState # <<>>),
                   !.prev = <<[op |-> last.op, moved |-> last.moved,
                               restored |-> last.restored, pre |-> last.pre,
                               prev |-> last.prev]>>]
    /\ steps' = steps + 1
    /\ UNCHANGED <<autoSave, hasWon, winEvents, constructed>>

\* toggleAutoSave()
ToggleAutoSave ==
    /\ steps < MaxSteps
    /\ constructed
    /\ autoSave' = ~autoSave
    /\ savedGame' = saveGame(~autoSave, savedGame, grid, score, hasWon)
    /\ last' = [Idle("toggle") EXCEPT !.pre = Entry]
    /\ steps' = steps + 1
    /\ UNCHANGED <<grid, score, bestScore, previousState, hasWon, winEvents, constructed>>

Next ==
    \/ \E direction \in Directions \cup {OtherDirection} : Move(direction)
    \/ Undo
    \/ \E k1 \in RandomDraws, k2 \in RandomDraws, two1 \in BOOLEAN, two2 \in BOOLEAN :
          NewGame(k1, two1, k2, two2)
    \/ ToggleAutoSave

Spec == Init /\ [][Next]_vars

----------------------------------------------------------------------------
\* One operation on each of a family of stored grids: the specification for
\* the properties of slideAndMergeRow, of the loops of move and of isGameOver
\* as functions of the grid.

\* Rows of 2 and 4 tiles: empty, with gaps, with pairs that merge, and the two
\* alternating rows that fill a grid without equal neighbours.
SampleRows ==
    {Row(0, 0, 0, 0), Row(0, 2, 0, 4), Row(0, 0, 0, 2), Row(2, 2, 2, 2),
     Row(2, 2, 4, 0), Row(2, 2, 4, 4), Row(2, 4, 2, 4), Row(4, 2, 4, 2)}

\* The grids with rows among SampleRows and at least two tiles, as a game
\* stores them.
SampleGrids ==
    {g \in [1 .. N -> SampleRows] :
        \E i \in 1 .. N, j \in 1 .. N, k \in 1 .. N, l \in 1 .. N :
            <<i, j>> # <<k, l>> /\ g[i][j] # 0 /\ g[k][l] # 0}

\* constructor with auto-save on and a stored record of score 0, hasWon false.
GridInit ==
    \E g \in SampleGrids :
        /\ grid = g
        /\ score = 0
        /\ hasWon = FALSE
        /\ bestScore = updateBest(0, 0)
        /\ previousState = <<>>
        /\ autoSave = TRUE
        /\ savedGame = <<[grid |-> g, score |-> 0, hasWon |-> FALSE]>>
        /\ winEvents = 0
        /\ constructed = TRUE
        /\ last = Idle("load")
        /\ steps = 0

\* move(direction) as the first operation.
FirstMove(direction) == steps = 0 /\ Move(direction)

\* newGame() as the first operation.
FirstNewGame(k1, two1, k2, two2) == steps = 0 /\ NewGame(k1, two1, k2, two2)

GridNext ==
    \/ \E direction \in Directions \cup {OtherDirection} : FirstMove(direction)
    \/ \E k1 \in RandomDraws, k2 \in RandomDraws, two1 \in BOOLEAN, two2 \in BOOLEAN :
          FirstNewGame(k1, two1, k2, two2)

GridSpec == GridInit /\ [][GridNext]_vars

----------------------------------------------------------------------------
\* Vocabulary of the properties.

Cells == Idx \X Idx

At(g, c) == Cell(g, c[1], c[2])

NonEmpty(g) == {c \in Cells : At(g, c) # 0}

\* Two cells that share an edge.
Adjacent(c, d) ==
    \/ (c[1] = d[1] /\ (c[2] = d[2] + 1 \/ d[2] = c[2] + 1))
    \/ (c[2] = d[2] /\ (c[1] = d[1] + 1 \/ d[1] = c[1] + 1))

\* The ordered pairs of cells that share an edge.
AdjacentPairs == {p \in Cells \X Cells : Adjacent(p[1], p[2])}

\* The cells in which two grids differ.
Changed(g, h) == {c \in Cells : At(g, c) # At(h, c)}

LastMove == last.op = "move"

\* One pass over a compacted line, from the end the tiles travel toward: an
\* equal leading pair becomes one tile that is not looked at again.
RECURSIVE SinglePass(_)
SinglePass(s) ==
    IF Len(s) < 2 THEN s
    ELSE IF s[1] = s[2]
         THEN <<2 * s[1]>> \o SinglePass(SubSeq(s, 3, Len(s)))
         ELSE <<s[1]>> \o SinglePass(Tail(s))

RECURSIVE SumOver(_, _)
SumOver(f, n) == IF n = 0 THEN 0 ELSE f[n] + SumOver(f, n - 1)

\* The doubled values of the merges of one slideAndMergeRow call.
MergedValues(call) == [k \in 1 .. Len(call.merged) |-> call.out[call.merged[k] + 1]]

\* The doubled values of all merges of the last move, line by line.
MergeTotal ==
    SumOver([k \in 1 .. Len(last.calls) |->
                SumOver(MergedValues(last.calls[k]), Len(last.calls[k].merged))],
            Len(last.calls))

----------------------------------------------------------------------------
\* C1: move('right') writes reverse(slideAndMergeRow(reverse(r))) into every
\* row r of the grid, the tiles packed against the right edge, mirroring
\* move('left'), which writes slideAndMergeRow(r).
C1_RightMirrorsLeft ==
    (LastMove /\ last.moved) =>
        /\ last.dir = "left" =>
              \A i \in 1 .. N :
                 /\ last.calls[i].in = last.pre[1].grid[i]
                 /\ last.newGrid[i] = last.calls[i].out
        /\ last.dir = "right" =>
              \A i \in 1 .. N :
                 /\ last.calls[i].in = Reverse(last.pre[1].grid[i])
                 /\ last.newGrid[i] = Reverse(last.calls[i].out)

----------------------------------------------------------------------------
\* C2: an undo right after a successful move restores the grid and the score
\* from before that move; an undo right after an undo changes neither.
C2_UndoRoundTrip ==
    (last.op = "undo") =>
        /\ (last.prev[1].op = "move" /\ last.prev[1].moved) =>
              /\ grid = last.prev[1].pre[1].grid
              /\ score = last.prev[1].pre[1].score
        /\ (last.prev[1].op = "undo") =>
              /\ grid = last.pre[1].grid
              /\ score = last.pre[1].score

\* A successful move that merged and spawned, its undo, and a second undo.
C2_Witness ==
    /\ last.op = "undo"
    /\ ~last.restored
    /\ last.prev[1].op = "undo"
    /\ last.prev[1].restored
    /\ last.prev[1].prev[1].op = "move"
    /\ last.prev[1].prev[1].moved
    /\ last.prev[1].pre[1].grid # grid
    /\ last.prev[1].pre[1].score > score

----------------------------------------------------------------------------
\* C3: every slideAndMergeRow call of a move returns the single pass over its
\* compacted input, padded to 4: no tile takes part in two merges, and pairs
\* are matched from index 0, the end the tiles travel toward.
C3_SinglePassMerge ==
    LastMove =>
        \A k \in 1 .. Len(last.calls) :
            /\ last.calls[k].out = PadZeros(SinglePass(FilterZeros(last.calls[k].in)))
            /\ last.calls[k].in = <<2, 2, 2, 2>> => last.calls[k].out = <<4, 4, 0, 0>>
            /\ last.calls[k].in = <<2, 2, 4, 0>> => last.calls[k].out = <<4, 4, 0, 0>>
            /\ last.calls[k].in = <<2, 2, 2, 0>> => last.calls[k].out = <<4, 2, 0, 0>>

\* A move that slid both [2,2,2,2] and [2,2,4,0].
C3_Witness ==
    /\ LastMove
    /\ \E k \in 1 .. Len(last.calls) : last.calls[k].in = <<2, 2, 2, 2>>
    /\ \E k \in 1 .. Len(last.calls) : last.calls[k].in = <<2, 2, 4, 0>>

----------------------------------------------------------------------------
\* C4: a move raises the score by exactly the sum of the doubled values of
\* the merges of its four lines, and by 0 when nothing merged.
C4_ScoreIsMergeSum ==
    LastMove =>
        /\ score - last.pre[1].score = MergeTotal
        /\ \A k \in 1 .. Len(last.calls) :
              last.calls[k].gained =
                 SumOver(MergedValues(last.calls[k]), Len(last.calls[k].merged))
        /\ (\A k \in 1 .. Len(last.calls) : last.calls[k].merged = <<>>) =>
              score = last.pre[1].score

\* A move in which one line merged a pair into 4 and a pair into 8, for 12.
C4_Witness ==
    /\ LastMove
    /\ \E k \in 1 .. Len(last.calls) :
          /\ last.calls[k].in = <<2, 2, 4, 4>>
          /\ last.calls[k].out = <<4, 8, 0, 0>>
          /\ last.calls[k].gained = 12
    /\ score > last.pre[1].score

----------------------------------------------------------------------------
\* C5, as stated: neither a move nor an undo lowers the score.
C5_ScoreNeverDecreases ==
    (last.op \in {"move", "undo"}) => score >= last.pre[1].score

\* C5, amended: a move never lowers the score; an undo never raises it: it
\* sets the score to the snapshot's, which may be lower.
C5_ScoreMonotoneUnderMove ==
    /\ LastMove => score >= last.pre[1].score
    /\ (last.op = "undo") => score <= last.pre[1].score
    /\ (last.op = "toggle") => score = last.pre[1].score
    /\ (last.op = "newGame") => score = 0

\* A move that raised the score.
C5_Witness == LastMove /\ score > last.pre[1].score

----------------------------------------------------------------------------
\* C6: the win overlay is scheduled at most once per game; a successful move
\* that leaves a 2048 tile sets hasWon, and schedules the overlay only if the
\* flag was clear; move, undo and toggleAutoSave never clear the flag; newGame
\* clears it.
C6_WinOnce ==
    /\ winEvents <= 1
    /\ (winEvents = 1) => hasWon
    /\ (LastMove /\ last.moved /\ checkWin(grid)) =>
          (hasWon /\ (last.win <=> ~last.pre[1].hasWon))
    /\ (LastMove /\ last.win) => (last.moved /\ checkWin(grid))
    /\ (last.op \in {"move", "undo", "toggle"} /\ last.pre[1].hasWon) => hasWon
    /\ (last.op = "newGame") => (~hasWon /\ winEvents = 0)

\* After a win, its undo back to a grid without 2048, a move that reaches
\* 2048 again without a second overlay.
C6_Witness ==
    /\ LastMove /\ last.moved
    /\ ~checkWin(last.pre[1].grid)
    /\ checkWin(grid)
    /\ last.pre[1].hasWon
    /\ ~last.win
    /\ winEvents = 1

----------------------------------------------------------------------------
\* C7: a move in one of the four directions whose loops leave newGrid equal
\* to the grid has moved = false and no effect: grid and score unchanged, no
\* tile, no overlay.
C7_SameGridNoMove ==
    (LastMove /\ last.dir \in Directions /\ last.newGrid = last.pre[1].grid) =>
        /\ ~last.moved
        /\ grid = last.pre[1].grid
        /\ score = last.pre[1].score
        /\ last.tiles = <<>>
        /\ ~last.win /\ ~last.over
        /\ hasWon = last.pre[1].hasWon

----------------------------------------------------------------------------
\* C8: isGameOver is true exactly when no cell is empty and no two cells that
\* share an edge hold equal values.
C8_GameOverExact ==
    isGameOver(grid) <=>
        /\ NonEmpty(grid) = Cells
        /\ \A p \in AdjacentPairs : At(grid, p[1]) # At(grid, p[2])

\* A move after which the game-over overlay was scheduled on a full grid.
C8_Witness == LastMove /\ last.over /\ isGameOver(grid) /\ NonEmpty(grid) = Cells

----------------------------------------------------------------------------
\* C9: every addRandomTile call turns exactly one empty cell into 2 or 4 and
\* leaves the others; a successful move makes one such call, on a newGrid with
\* an empty cell, and a move that did not move makes none.
C9_SpawnOneEmptyCell ==
    /\ \A t \in 1 .. Len(last.tiles) :
          /\ Cardinality(Changed(last.tiles[t].before, last.tiles[t].after)) = 1
          /\ \A c \in Changed(last.tiles[t].before, last.tiles[t].after) :
                /\ At(last.tiles[t].before, c) = 0
                /\ At(last.tiles[t].after, c) \in {2, 4}
    /\ (LastMove /\ last.moved) =>
          /\ Len(last.tiles) = 1
          /\ last.tiles[1].before = last.newGrid
          /\ last.tiles[1].after = grid
          /\ NonEmpty(last.newGrid) # Cells
          /\ Cardinality(NonEmpty(grid)) = Cardinality(NonEmpty(last.newGrid)) + 1
    /\ (LastMove /\ ~last.moved) => last.tiles = <<>>

\* A successful move whose spawn filled the last empty cell.
C9_Witness ==
    /\ LastMove /\ last.moved
    /\ Cardinality(NonEmpty(last.newGrid)) = (N * N) - 1
    /\ NonEmpty(grid) = Cells

----------------------------------------------------------------------------
\* C10: newGame leaves exactly two tiles, each 2 or 4, score 0, hasWon false
\* and no snapshot; an undo right after it restores nothing.
C10_NewGameFresh ==
    /\ (last.op = "newGame") =>
          /\ Cardinality(NonEmpty(grid)) = 2
          /\ \A c \in NonEmpty(grid) : At(grid, c) \in {2, 4}
          /\ score = 0
          /\ ~hasWon
          /\ previousState = <<>>
    /\ (last.op = "undo" /\ last.prev[1].op = "newGame") =>
          /\ ~last.restored
          /\ grid = last.pre[1].grid
          /\ score = 0
          /\ Cardinality(NonEmpty(grid)) = 2

\* An undo right after a newGame() that ended a game with a score.
C10_Witness ==
    /\ last.op = "undo"
    /\ last.prev[1].op = "newGame"
    /\ steps = 3
    /\ bestScore > 20468

----------------------------------------------------------------------------
\* The non-zero values of a line, in their order in the line.
RECURSIVE NonZeroInOrder(_)
NonZeroInOrder(s) ==
    IF s = <<>> THEN <<>>
    ELSE IF Head(s) = 0 THEN NonZeroInOrder(Tail(s))
         ELSE <<Head(s)>> \o NonZeroInOrder(Tail(s))

NoEqualNeighbours(s) == \A k \in 1 .. (Len(s) - 1) : s[k] # s[k + 1]

Zeros(n) == [k \in 1 .. n |-> 0]

\* C11: a slideAndMergeRow call on a line whose non-zero values have no two
\* equal neighbours returns those values in their original order, followed by
\* zeros up to length 4; [0,2,0,4] gives [2,4,0,0].
C11_CompactionKeepsOrder ==
    LastMove =>
        \A k \in 1 .. Len(last.calls) :
            LET kept == NonZeroInOrder(last.calls[k].in)
            IN  /\ Len(last.calls[k].out) = N
                /\ NoEqualNeighbours(kept) =>
                      /\ last.calls[k].out = kept \o Zeros(N - Len(kept))
                      /\ last.calls[k].merged = <<>>
                /\ last.calls[k].in = <<0, 2, 0, 4>> => last.calls[k].out = <<2, 4, 0, 0>>

\* A move with a call on the line [0,2,0,4].
C11_Witness ==
    /\ LastMove
    /\ \E k \in 1 .. Len(last.calls) :
          /\ last.calls[k].in = <<0, 2, 0, 4>>
          /\ last.calls[k].out # last.calls[k].in

----------------------------------------------------------------------------
\* C12: no operation (move, undo, newGame, toggleAutoSave) lowers the best
\* score, across games too, and after the constructor and after every
\* operation the best score is at least the score.
C12_BestScoreMonotone ==
    /\ bestScore >= score
    /\ [][bestScore' >= bestScore /\ bestScore' >= score']_vars

\* An undo that lowered the score below the best score its move had set.
C12_Witness ==
    /\ last.op = "undo"
    /\ last.restored
    /\ bestScore = last.pre[1].score
    /\ bestScore > score

----------------------------------------------------------------------------
\* C13: with auto-save on, after a newGame, a successful move or an undo that
\* restored, the stored record equals the current grid, score and hasWon; so
\* after the move that sets hasWon the stored hasWon is true.
C13_SavedRecordIsCurrent ==
    (/\ autoSave
     /\ \/ last.op = "newGame"
        \/ (LastMove /\ last.moved)
        \/ (last.op = "undo" /\ last.restored)) =>
        savedGame = <<[grid |-> grid, score |-> score, hasWon |-> hasWon]>>

----------------------------------------------------------------------------
\* The slideAndMergeRow call of the last move on the line through cell p: the
\* row of p for left and right, the column of p for up and down.
CallThrough(p) ==
    last.calls[(IF last.dir \in {"left", "right"} THEN p.row ELSE p.col) + 1]

\* The cell that index idx of line k stands for when the line is written back
\* in the orientation of the direction.
LineCell(direction, k, idx) ==
    IF direction = "left" THEN [row |-> k, col |-> idx]
    ELSE IF direction = "right" THEN [row |-> k, col |-> 3 - idx]
    ELSE IF direction = "up" THEN [row |-> idx, col |-> k]
    ELSE [row |-> 3 - idx, col |-> k]

\* C14: every cell in mergedCells of a move holds, in newGrid, a non-zero
\* value that a merge of the line through it produced; and mergedCells are
\* the merge indices of the four lines, mirrored for right and down.
C14_MergedCellsHoldMerges ==
    (LastMove /\ last.dir \in Directions) =>
        /\ \A n \in 1 .. Len(last.merged) :
              LET p == last.merged[n]
                  c == CallThrough(p)
              IN  /\ Cell(last.newGrid, p.row, p.col) # 0
                  /\ \E m \in 1 .. Len(c.merged) :
                        Cell(last.newGrid, p.row, p.col) = c.out[c.merged[m] + 1]
        /\ {last.merged[n] : n \in 1 .. Len(last.merged)} =
              {LineCell(last.dir, k - 1, last.calls[k].merged[m]) :
                  <<k, m>> \in {q \in (1 .. N) \X (1 .. N) :
                                  q[2] <= Len(last.calls[q[1]].merged)}}

----------------------------------------------------------------------------
\* C15: a successful move that leaves a full grid without equal neighbours
\* schedules the game-over overlay, also when it is the move that sets hasWon.
C15_GameOverAlwaysReported ==
    (LastMove /\ last.moved /\ isGameOver(grid)) => last.over

----------------------------------------------------------------------------
\* C16: after a move in one of the four directions that did not move, there
\* is no snapshot.
C16_NoMoveNoSnapshot ==
    (LastMove /\ last.dir \in Directions /\ ~last.moved) => previousState = <<>>

----------------------------------------------------------------------------
\* C17: a move in a direction that is none of the four leaves the grid, the
\* score, the snapshot and hasWon as they were.
C17_OtherDirectionNoOp ==
    [][(last'.op = "move" /\ last'.dir \notin Directions) =>
          UNCHANGED <<grid, score, previousState, hasWon>>]_vars

----------------------------------------------------------------------------
\* C18: the constructor always returns a game: either the stored record,
\* restored as grid, score and hasWon with no snapshot, or, when there is no
\* usable record, a new game of two tiles of 2 or 4, score 0 and hasWon false.
C18_LoadNeverFails ==
    (steps = 0) =>
        /\ constructed
        /\ previousState = <<>>
        /\ (last.op = "load") =>
              savedGame = <<[grid |-> grid, score |-> score, hasWon |-> hasWon]>>
        /\ (last.op # "load") =>
              /\ Cardinality(NonEmpty(grid)) = 2
              /\ \A c \in NonEmpty(grid) : At(grid, c) \in {2, 4}
              /\ score = 0
              /\ ~hasWon

----------------------------------------------------------------------------
\* C19: on every grid of a game, isGameOver is true exactly when the loops of
\* move leave moved = false for each of left, right, up and down.
C19_GameOverIffNoMove ==
    constructed =>
        (isGameOver(grid) <=>
            \A direction \in Directions : ~MoveLines(grid, score, direction).moved)

\* A move that did not move, attempted on a grid on which the game is over.
C19_Witness ==
    /\ LastMove
    /\ last.dir \in Directions
    /\ ~last.moved
    /\ isGameOver(grid)

----------------------------------------------------------------------------
\* The sum of the 16 cells of a grid.
GridSum(g) == SumOver([p \in 1 .. (N * N) |-> Cell(g, (p - 1) \div N, (p - 1) % N)], N * N)

RECURSIVE IsPowerOfTwo(_)
IsPowerOfTwo(v) == v = 2 \/ (v > 2 /\ v % 2 = 0 /\ IsPowerOfTwo(v \div 2))

\* C20: the loops of a move leave the sum of the cells unchanged, the spawn of
\* a successful move adds the value of the new tile, 2 or 4, and every cell of
\* a game's grid is 0 or a power of two from 2 up.
C20_TileMassConserved ==
    /\ LastMove => GridSum(last.newGrid) = GridSum(last.pre[1].grid)
    /\ (LastMove /\ last.moved) => (GridSum(grid) - GridSum(last.newGrid)) \in {2, 4}
    /\ (LastMove /\ ~last.moved) => GridSum(grid) = GridSum(last.pre[1].grid)
    /\ constructed => \A c \in Cells : At(grid, c) = 0 \/ IsPowerOfTwo(At(grid, c))

\* A successful move that merged in two lines and spawned a tile.
C20_Witness ==
    /\ LastMove /\ last.moved
    /\ Len(last.merged) >= 2
    /\ Cardinality({k \in 1 .. N : last.calls[k].merged # <<>>}) >= 2
    /\ GridSum(grid) > GridSum(last.pre[1].grid)

====
